---- MODULE Spec2Model ----
(***************************************************************************)
(* The Odoo sales dashboard of src/odoo_sales/app.py as a state machine.   *)
(*                                                                         *)
(* One run of the script is one render: the sidebar narrows the extracted  *)
(* fact set df to filtered_df, the KPI block, the chart blocks and the     *)
(* forecast block each derive their values from filtered_df, and the       *)
(* export block serialises filtered_df.  A run ends at "done", or at       *)
(* "fault" when a statement raises.  Rerun starts the script again.        *)
(*                                                                         *)
(* Dates are day numbers.  Money amounts are integers; a quotient is kept  *)
(* as an exact fraction [num, den].  A missing value (SQL NULL, NaN) is    *)
(* NULL.  Statements that only draw (st.metric, px.*, st.plotly_chart,     *)
(* st.dataframe) and the column product_uom_qty, which no computation      *)
(* reads, are left out, as is the monthly/quarterly resampling.            *)
(***************************************************************************)
EXTENDS Integers, Sequences, FiniteSets

VARIABLES
    df,                    \* the extracted fact set, one record per order line
    pc,                    \* the block of the script the run is about to execute
    start_date, end_date,  \* the two date inputs
    salesperson_selected, customer_selected, category_selected,
    filtered_df,
    total_sales, total_orders, avg_order_value, total_customers, new_customers,
    daily_sales,
    top_customers, top_products, category_sales, salesperson_perf, funnel_df,
    daily_sales_forecast, future_days, forecast_df,
    csv_rows

vars == <<df, pc, start_date, end_date, salesperson_selected, customer_selected,
          category_selected, filtered_df, total_sales, total_orders,
          avg_order_value, total_customers, new_customers, daily_sales,
          top_customers, top_products, category_sales, salesperson_perf,
          funnel_df, daily_sales_forecast, future_days, forecast_df, csv_rows>>

----------------------------------------------------------------------------
(* Bounds and program constants *)

\* most order lines in the extracted fact set
MaxLines == 2
\* most order lines in the fact sets of SpecFunnel
MaxFunnelLines == 4

\* head(10)
TopN == 10
\* rolling(7)
RollingWindow == 7
\* np.arange(last + 1, last + 31), periods=30
ForecastDays == 30

NULL == "NULL"

----------------------------------------------------------------------------
(* Values *)

\* every name the fact sets use, in the order pandas sorts strings (by code point)
LexOrder ==
    << "Acme", "Bolt", "Desk", "Furniture",
       "P01", "P02", "P03", "P04", "P05", "P06", "P07", "P08", "P09", "P10", "P11",
       "Pen", "alice", "bob", "cancel", "done", "draft", "sale", "sent" >>

stage_order == << "draft", "sent", "sale", "done", "cancel" >>

Frac(n, d) == [num |-> n, den |-> d]
Zero == Frac(0, 1)
FracEq(x, y) == x.num * y.den = y.num * x.den

SetMin(S) == CHOOSE x \in S : \A y \in S : x <= y
SetMax(S) == CHOOSE x \in S : \A y \in S : y <= x

RECURSIVE SortedSeq(_)
\* the integers of S in ascending order
SortedSeq(S) ==
    IF S = {} THEN << >>
    ELSE LET m == SetMin(S) IN << m >> \o SortedSeq(S \ {m})

----------------------------------------------------------------------------
(* The query result: one row per sale_order_line joined to its order and   *)
(* product.  order_number, order_date, state, customer and salesperson are *)
(* columns of the order, category is a column of the product.              *)

\* sale_order rows (with res_partner.name and res_users.login joined in)
OrderTable ==
    << [order_number |-> "S1", order_date |-> 0, state |-> "sale",
        customer |-> "Bolt", salesperson |-> "alice"],
       [order_number |-> "S2", order_date |-> 1, state |-> "draft",
        customer |-> "Acme", salesperson |-> NULL],
       [order_number |-> "S3", order_date |-> 3, state |-> "cancel",
        customer |-> "Bolt", salesperson |-> "bob"] >>

\* one order per funnel stage and a second "sale" order, all of one day
FunnelOrderTable ==
    << [order_number |-> "S1", order_date |-> 0, state |-> "sale",
        customer |-> "Acme", salesperson |-> NULL],
       [order_number |-> "S2", order_date |-> 0, state |-> "draft",
        customer |-> "Acme", salesperson |-> NULL],
       [order_number |-> "S3", order_date |-> 0, state |-> "cancel",
        customer |-> "Acme", salesperson |-> NULL],
       [order_number |-> "S4", order_date |-> 0, state |-> "sent",
        customer |-> "Acme", salesperson |-> NULL],
       [order_number |-> "S5", order_date |-> 0, state |-> "done",
        customer |-> "Acme", salesperson |-> NULL],
       [order_number |-> "S6", order_date |-> 0, state |-> "sale",
        customer |-> "Acme", salesperson |-> NULL] >>

\* two orders of one day, for fact sets of many products
TopOrderTable ==
    << [order_number |-> "S1", order_date |-> 0, state |-> "sale",
        customer |-> "Acme", salesperson |-> NULL],
       [order_number |-> "S2", order_date |-> 0, state |-> "sale",
        customer |-> "Bolt", salesperson |-> NULL] >>

\* one product more than a ranking holds
ManyProducts ==
    << "P01", "P02", "P03", "P04", "P05", "P06", "P07", "P08", "P09", "P10", "P11" >>

\* product_template.categ_id is nullable (LEFT JOIN product_category)
ProductCategory(p) == IF p = "Desk" THEN "Furniture" ELSE NULL

\* the row the query returns for a line of order o, product p, line total v
Row(orders, o, p, v) ==
    [order_id |-> o,
     order_number |-> orders[o].order_number,
     order_date |-> orders[o].order_date,
     state |-> orders[o].state,
     customer |-> orders[o].customer,
     salesperson |-> orders[o].salesperson,
     price_total |-> v,
     product |-> p,
     category |-> ProductCategory(p)]

\* the fact sets of 1..n lines over the given orders, products and line totals
FactSets(orders, products, prices, n) ==
    UNION { [1..k -> { Row(orders, o, p, v) :
                         o \in DOMAIN orders, p \in products, v \in prices }]
            : k \in 1..n }

----------------------------------------------------------------------------
(* pandas, as the script uses it *)

RECURSIVE SumCol(_)
\* rows["price_total"].sum(); 0 for no rows
SumCol(rows) ==
    IF rows = << >> THEN 0
    ELSE Head(rows).price_total + SumCol(Tail(rows))

\* rows[col].unique(): the values of a column, NULL among them
Unique(rows, col) == { rows[i][col] : i \in DOMAIN rows }

\* .dropna() on a column of strings
DropNa(S) == S \ {NULL}

\* rows[col].nunique() on a column of strings: the distinct non-null values
Nunique(rows, col) == Cardinality(DropNa(Unique(rows, col)))

\* rows["order_id"].nunique(): the key of sale_order is never null
NuniqueId(rows) == Cardinality(Unique(rows, "order_id"))

InDateRangeOpenEnd(r, s, e) == s <= r.order_date /\ r.order_date < e

\* (df["order_date"] >= start) & (df["order_date"] <= end)
InDateRange(r, s, e) == s <= r.order_date /\ r.order_date <= e

\* rows[rows[col].isin(selected)]
Isin(rows, col, selected) == SelectSeq(rows, LAMBDA r : r[col] \in selected)

\* if selected: rows = rows[rows[col].isin(selected)]
Restrict(rows, col, selected) ==
    IF selected # {} THEN Isin(rows, col, selected) ELSE rows

\* groupby(col) on a string column: the group keys, sorted, null keys dropped
GroupKeys(rows, col) ==
    SelectSeq(LexOrder, LAMBDA k : \E i \in DOMAIN rows : rows[i][col] = k)

\* the rows of one group, in their order in rows
GroupRows(rows, col, k) == SelectSeq(rows, LAMBDA r : r[col] = k)

\* rows.groupby(col)["price_total"].sum().reset_index()
GroupBySum(rows, col) ==
    LET keys == GroupKeys(rows, col)
    IN  [j \in 1..Len(keys) |->
            [key |-> keys[j], price_total |-> SumCol(GroupRows(rows, col, keys[j]))]]

\* rows.groupby("order_date")["price_total"].sum().reset_index(): dates ascending
GroupByDateSum(rows) ==
    LET dates == SortedSeq(Unique(rows, "order_date"))
    IN  [j \in 1..Len(dates) |->
            [order_date |-> dates[j],
             price_total |-> SumCol(GroupRows(rows, "order_date", dates[j]))]]

RECURSIVE AscOrders(_, _)
AscOrders(s, idx) ==
    IF idx = {} THEN { << >> }
    ELSE LET m == SetMin({ s[i].price_total : i \in idx })
         IN  UNION { { << s[i] >> \o t : t \in AscOrders(s, idx \ {i}) }
                     : i \in { j \in idx : s[j].price_total = m } }

RECURSIVE DescOrders(_, _)
\* the orders .sort_values(ascending=False) can leave the rows s[i], i in idx, in:
\* largest price_total first; the default sort (quicksort) is not stable, so rows
\* of equal price_total can come out in any order
DescOrders(s, idx) ==
    IF idx = {} THEN { << >> }
    ELSE LET m == SetMax({ s[i].price_total : i \in idx })
         IN  UNION { { << s[i] >> \o t : t \in DescOrders(s, idx \ {i}) }
                     : i \in { j \in idx : s[j].price_total = m } }

SortValuesAsc(s) == AscOrders(s, DOMAIN s)

\* s.sort_values("price_total", ascending=False)
SortValuesDesc(s) == DescOrders(s, DOMAIN s)

\* s.head(n)
HeadN(s, n) == SubSeq(s, 1, IF Len(s) < n THEN Len(s) ELSE n)

\* s.rolling(w).mean() at position i: absent until w samples are there
RollingMean(s, w, i) ==
    IF i < w THEN NULL
    ELSE Frac(SumCol(SubSeq(s, i - w + 1, i)), w)

----------------------------------------------------------------------------
(* The blocks of the script *)

AvgOrderValueUnguarded(sales, orders) == Frac(sales, orders)

\* KPI METRICS: total_sales / total_orders if total_orders else 0
AvgOrderValue(sales, orders) ==
    IF orders # 0 THEN Frac(sales, orders) ELSE Zero

\* KPI METRICS: (groupby("customer")["order_date"].min() >= start_date).sum()
NewCustomers(rows, start) ==
    Cardinality({ c \in DropNa(Unique(rows, "customer")) :
        SetMin(Unique(GroupRows(rows, "customer", c), "order_date")) >= start })

\* SALES TREND: daily sums with their 7-sample rolling mean
DailySales(rows) ==
    LET d == GroupByDateSum(rows)
    IN  [i \in 1..Len(d) |->
            [order_date |-> d[i].order_date, price_total |-> d[i].price_total,
             rolling_7 |-> RollingMean(d, RollingWindow, i)]]

\* TOP CUSTOMERS / TOP PRODUCTS: the rankings the block can produce
TopRankings(rows, col) ==
    { HeadN(s, TopN) : s \in SortValuesDesc(GroupBySum(rows, col)) }

\* SALES FUNNEL: groupby("state")["order_id"].nunique(), renamed to count
FunnelCounts(rows) ==
    LET keys == GroupKeys(rows, "state")
    IN  [j \in 1..Len(keys) |->
            [state |-> keys[j],
             count |-> NuniqueId(GroupRows(rows, "state", keys[j]))]]

SortByStageUnsorted(f) == f

\* SALES FUNNEL: state made an ordered Categorical over stage_order, then sorted
SortByStage(f) ==
    LET present == SelectSeq(stage_order,
                             LAMBDA s : \E i \in DOMAIN f : f[i].state = s)
    IN  [j \in 1..Len(present) |->
            f[CHOOSE i \in DOMAIN f : f[i].state = present[j]]]

DayNumberRank(d, i) == i - 1

\* SALES FORECASTING: (order_date - order_date.min()).dt.days of the i-th day
DayNumber(d, i) == d[i].order_date - SetMin({ d[j].order_date : j \in DOMAIN d })

\* SALES FORECASTING: daily sums with their day_number
DailySalesForecast(rows) ==
    LET d == GroupByDateSum(rows)
    IN  [i \in 1..Len(d) |->
            [order_date |-> d[i].order_date, price_total |-> d[i].price_total,
             day_number |-> DayNumber(d, i)]]

RECURSIVE SumInts(_)
\* the sum of a sequence of integers
SumInts(xs) == IF xs = << >> THEN 0 ELSE Head(xs) + SumInts(Tail(xs))

\* LinearRegression().fit(X, y).predict([[x]]) for X = day_number, y = price_total:
\* the least-squares line through the samples, evaluated at x, as an exact
\* fraction; with a single sample the slope is 0 and the line is y itself
Predict(d, x) ==
    LET n   == Len(d)
        Sx  == SumInts([i \in DOMAIN d |-> d[i].day_number])
        Sy  == SumInts([i \in DOMAIN d |-> d[i].price_total])
        Sxx == SumInts([i \in DOMAIN d |-> d[i].day_number * d[i].day_number])
        Sxy == SumInts([i \in DOMAIN d |-> d[i].day_number * d[i].price_total])
        Dxx == n * Sxx - Sx * Sx
        Dxy == n * Sxy - Sx * Sy
    IN  IF Dxx = 0 THEN Frac(Sy, n)
        ELSE Frac(Sy * Dxx + Dxy * (n * x - Sx), n * Dxx)

\* np.arange(X[-1][0] + 1, X[-1][0] + 31)
FutureDays(d) == [k \in 1..ForecastDays |-> d[Len(d)].day_number + k]

\* pd.date_range(order_date.max() + 1 day, periods=30)
ForecastDates(d) ==
    [k \in 1..ForecastDays |->
        SetMax({ d[j].order_date : j \in DOMAIN d }) + 1 + (k - 1)]

\* forecast_df: one row per forecast date with the prediction for that position
ForecastDf(d) ==
    LET days == FutureDays(d)
        dates == ForecastDates(d)
    IN  [k \in 1..ForecastDays |->
            [date |-> dates[k], forecast_sales |-> Predict(d, days[k])]]

----------------------------------------------------------------------------
(* The state machine *)

\* what a run has not computed yet
Blank ==
    /\ start_date = 0 /\ end_date = 0
    /\ salesperson_selected = {} /\ customer_selected = {} /\ category_selected = {}
    /\ filtered_df = << >>
    /\ total_sales = 0 /\ total_orders = 0 /\ avg_order_value = Zero
    /\ total_customers = 0 /\ new_customers = 0
    /\ daily_sales = << >>
    /\ top_customers = << >> /\ top_products = << >> /\ category_sales = << >>
    /\ salesperson_perf = << >> /\ funnel_df = << >>
    /\ daily_sales_forecast = << >> /\ future_days = << >> /\ forecast_df = << >>
    /\ csv_rows = << >>

\* df = load_sales_data(): orders of several days, customers and salespeople
Init ==
    /\ df \in FactSets(OrderTable, {"Desk", "Pen"}, {1, 2}, MaxLines)
    /\ pc = "sidebar"
    /\ Blank

\* df = load_sales_data(): lines of orders in every funnel stage
InitFunnel ==
    /\ df \in FactSets(FunnelOrderTable, {"Pen"}, {1}, MaxFunnelLines)
    /\ pc = "sidebar"
    /\ Blank

\* df = load_sales_data(): one line per product of ManyProducts, the last product
\* first, alternating between the two orders; the line of the k-th product
\* totals k or k + 1, so that only neighbours can tie
InitTop ==
    /\ df \in { [i \in 1..Len(ManyProducts) |->
                    LET k == Len(ManyProducts) + 1 - i
                    IN  Row(TopOrderTable, 1 + (i % 2), ManyProducts[k], k + d[i])]
                : d \in [1..Len(ManyProducts) -> {0, 1}] }
    /\ pc = "sidebar"
    /\ Blank

\* SIDEBAR FILTERS: the two date inputs, clamped to the dates of df, and the three
\* multiselects, each offering the values left by the filters above it
Sidebar ==
    /\ pc = "sidebar"
    /\ LET min_date == SetMin(Unique(df, "order_date"))
           max_date == SetMax(Unique(df, "order_date"))
       IN  \E s \in min_date..max_date, e \in min_date..max_date :
           LET f1 == SelectSeq(df, LAMBDA r : InDateRange(r, s, e))
               salesperson_options == DropNa(Unique(f1, "salesperson"))
           IN  \E sp \in SUBSET salesperson_options :
               LET f2 == Restrict(f1, "salesperson", sp)
                   customer_options == Unique(f2, "customer")
               IN  \E cu \in SUBSET customer_options :
                   LET f3 == Restrict(f2, "customer", cu)
                       category_options == DropNa(Unique(f3, "category"))
                   IN  \E ca \in SUBSET category_options :
                       /\ start_date' = s
                       /\ end_date' = e
                       /\ salesperson_selected' = sp
                       /\ customer_selected' = cu
                       /\ category_selected' = ca
                       /\ filtered_df' = Restrict(f3, "category", ca)
    /\ pc' = "kpi"
    /\ UNCHANGED <<df, total_sales, total_orders, avg_order_value, total_customers,
                   new_customers, daily_sales, top_customers, top_products,
                   category_sales, salesperson_perf, funnel_df,
                   daily_sales_forecast, future_days, forecast_df, csv_rows>>

\* KPI METRICS
KpiMetrics ==
    /\ pc = "kpi"
    /\ total_sales' = SumCol(filtered_df)
    /\ total_orders' = Nunique(filtered_df, "order_number")
    /\ avg_order_value' = AvgOrderValue(total_sales', total_orders')
    /\ total_customers' = Nunique(filtered_df, "customer")
    /\ new_customers' = NewCustomers(filtered_df, start_date)
    /\ pc' = "charts"
    /\ UNCHANGED <<df, start_date, end_date, salesperson_selected,
                   customer_selected, category_selected, filtered_df, daily_sales,
                   top_customers, top_products, category_sales, salesperson_perf,
                   funnel_df, daily_sales_forecast, future_days, forecast_df,
                   csv_rows>>

\* SALES TREND, TOP CUSTOMERS, TOP PRODUCTS, SALES BY CATEGORY, SALESPERSON
\* PERFORMANCE, SALES FUNNEL
Charts ==
    /\ pc = "charts"
    /\ daily_sales' = DailySales(filtered_df)
    /\ top_customers' \in TopRankings(filtered_df, "customer")
    /\ top_products' \in TopRankings(filtered_df, "product")
    /\ category_sales' = GroupBySum(filtered_df, "category")
    /\ salesperson_perf' \in SortValuesDesc(GroupBySum(filtered_df, "salesperson"))
    /\ funnel_df' = SortByStage(FunnelCounts(filtered_df))
    /\ pc' = "forecast"
    /\ UNCHANGED <<df, start_date, end_date, salesperson_selected,
                   customer_selected, category_selected, filtered_df, total_sales,
                   total_orders, avg_order_value, total_customers, new_customers,
                   daily_sales_forecast, future_days, forecast_df, csv_rows>>

\* SALES FORECASTING: with no rows, X is empty and model.fit(X, y) raises
\* (X[-1] would raise next); nothing in the script catches it
Forecast ==
    /\ pc = "forecast"
    /\ daily_sales_forecast' = DailySalesForecast(filtered_df)
    /\ IF daily_sales_forecast' = << >>
       THEN /\ pc' = "fault"
            /\ UNCHANGED <<future_days, forecast_df>>
       ELSE /\ future_days' = FutureDays(daily_sales_forecast')
            /\ forecast_df' = ForecastDf(daily_sales_forecast')
            /\ pc' = "export"
    /\ UNCHANGED <<df, start_date, end_date, salesperson_selected,
                   customer_selected, category_selected, filtered_df, total_sales,
                   total_orders, avg_order_value, total_customers, new_customers,
                   daily_sales, top_customers, top_products, category_sales,
                   salesperson_perf, funnel_df, csv_rows>>

\* DATA TABLE, EXPORT OPTIONS: filtered_df.to_excel / to_csv(index=False)
Export ==
    /\ pc = "export"
    /\ csv_rows' = filtered_df
    /\ pc' = "done"
    /\ UNCHANGED <<df, start_date, end_date, salesperson_selected,
                   customer_selected, category_selected, filtered_df, total_sales,
                   total_orders, avg_order_value, total_customers, new_customers,
                   daily_sales, top_customers, top_products, category_sales,
                   salesperson_perf, funnel_df, daily_sales_forecast, future_days,
                   forecast_df>>

\* a widget changes and the script runs again from the top, on the cached df
Rerun ==
    /\ pc \in {"done", "fault"}
    /\ pc' = "sidebar"
    /\ start_date' = 0 /\ end_date' = 0
    /\ salesperson_selected' = {} /\ customer_selected' = {}
    /\ category_selected' = {}
    /\ filtered_df' = << >>
    /\ total_sales' = 0 /\ total_orders' = 0 /\ avg_order_value' = Zero
    /\ total_customers' = 0 /\ new_customers' = 0
    /\ daily_sales' = << >>
    /\ top_customers' = << >> /\ top_products' = << >> /\ category_sales' = << >>
    /\ salesperson_perf' = << >> /\ funnel_df' = << >>
    /\ daily_sales_forecast' = << >> /\ future_days' = << >> /\ forecast_df' = << >>
    /\ csv_rows' = << >>
    /\ UNCHANGED df

Next == Sidebar \/ KpiMetrics \/ Charts \/ Forecast \/ Export \/ Rerun

Spec == Init /\ [][Next]_vars

SpecFunnel == InitFunnel /\ [][Next]_vars

SpecTop == InitTop /\ [][Next]_vars

----------------------------------------------------------------------------
(* Properties *)

\* how far the current run has come
KpiDone == pc \in {"charts", "forecast", "export", "done", "fault"}
ChartsDone == pc \in {"forecast", "export", "done", "fault"}
ForecastReached == pc \in {"export", "done", "fault"}
ForecastDone == pc \in {"export", "done"}

RECURSIVE LineTotalOver(_)
\* the sum of price_total over the rows of df with index in S
LineTotalOver(S) ==
    IF S = {} THEN 0
    ELSE LET i == CHOOSE j \in S : TRUE
         IN  df[i].price_total + LineTotalOver(S \ {i})

\* the row passes every active filter predicate of the sidebar
Passes(r) ==
    /\ start_date <= r.order_date /\ r.order_date <= end_date
    /\ salesperson_selected # {} =>
           r.salesperson # NULL /\ r.salesperson \in salesperson_selected
    /\ customer_selected # {} => r.customer \in customer_selected
    /\ category_selected # {} =>
           r.category # NULL /\ r.category \in category_selected

\* the sum of price_total over the rows of filtered_df whose column col is k
KeyTotal(col, k) ==
    LineTotalOver({ i \in DOMAIN df : Passes(df[i]) /\ df[i][col] = k })

\* the index of the first row of filtered_df whose column col is k
FirstSeen(col, k) ==
    SetMin({ i \in DOMAIN filtered_df : filtered_df[i][col] = k })

\* C1: once the KPIs are computed, total_sales is the sum of price_total over
\* exactly the rows of df that lie in [start_date, end_date] (both ends included)
\* and, for each non-empty selection, have a non-null value in it; filtered_df
\* holds exactly those rows, so with start_date = end_date only rows of that date
C1_TotalSalesOverPassingRows ==
    KpiDone =>
        /\ total_sales = LineTotalOver({ i \in DOMAIN df : Passes(df[i]) })
        /\ Len(filtered_df) = Cardinality({ i \in DOMAIN df : Passes(df[i]) })
        /\ \A i \in DOMAIN filtered_df : Passes(filtered_df[i])
        /\ start_date = end_date =>
               \A i \in DOMAIN filtered_df : filtered_df[i].order_date = start_date

\* a one-day range with a category selection that drops a row of null category
C1_Witness ==
    /\ KpiDone
    /\ start_date = end_date
    /\ category_selected # {}
    /\ Len(df) = 2 /\ Len(filtered_df) = 1
    /\ \E i \in DOMAIN df : df[i].category = NULL /\ df[i].order_date = start_date
    /\ total_sales = 2

\* C3: when the filtered fact set is empty the run does not fault and every
\* aggregate is its empty value; no forecast is produced
C3_EmptySetRendersIdentity ==
    (pc # "sidebar" /\ filtered_df = << >>) =>
        /\ pc # "fault"
        /\ KpiDone =>
               /\ total_sales = 0 /\ total_orders = 0 /\ FracEq(avg_order_value, Zero)
               /\ total_customers = 0 /\ new_customers = 0
        /\ ChartsDone =>
               /\ daily_sales = << >> /\ top_customers = << >> /\ top_products = << >>
               /\ category_sales = << >> /\ salesperson_perf = << >>
               /\ funnel_df = << >>
        /\ forecast_df = << >>

\* C4: with fewer than 2 distinct order dates in the filtered set the forecast
\* block fits nothing and produces no forecast series, and it does not fault
C4_ForecastNeedsTwoDates ==
    (ForecastReached /\ Cardinality(Unique(filtered_df, "order_date")) < 2) =>
        /\ pc # "fault"
        /\ future_days = << >>
        /\ forecast_df = << >>

\* C5: new_customers counts the customers of the filtered set whose earliest
\* order_date over all their rows of the extracted set df is >= start_date
C5_NewCustomersHaveNoEarlierOrder ==
    KpiDone =>
        new_customers =
            Cardinality({ c \in Unique(filtered_df, "customer") :
                \A i \in DOMAIN df :
                    df[i].customer = c => df[i].order_date >= start_date })

\* C6: avg_order_value is exactly total_sales / total_orders when total_orders > 0
\* and exactly 0 when total_orders = 0, total_orders being the number of distinct
\* order_number values of the filtered set; no quotient has a zero divisor
C6_AvgOrderValue ==
    KpiDone =>
        /\ total_orders =
               Cardinality({ filtered_df[i].order_number : i \in DOMAIN filtered_df })
        /\ avg_order_value.den # 0
        /\ total_orders > 0 =>
               avg_order_value.num * total_orders = total_sales * avg_order_value.den
        /\ total_orders = 0 => avg_order_value.num = 0

\* two lines of one order: one order, and the average is the sum of both lines
C6_Witness ==
    /\ KpiDone
    /\ Len(filtered_df) = 2
    /\ total_orders = 1
    /\ total_sales = 3
    /\ avg_order_value = Frac(3, 1)

\* the position of a state in the funnel's stage sequence
StageRank(s) == CHOOSE i \in 1..Len(stage_order) : stage_order[i] = s

\* C7: the funnel has exactly one row per state occurring in the filtered set, each
\* with the number of distinct order_id values of that state, in the order draft,
\* sent, sale, done, cancel
C7_FunnelByStage ==
    ChartsDone =>
        /\ { funnel_df[i].state : i \in DOMAIN funnel_df } = Unique(filtered_df, "state")
        /\ Len(funnel_df) = Cardinality(Unique(filtered_df, "state"))
        /\ \A i \in DOMAIN funnel_df :
               funnel_df[i].count =
                   Cardinality({ filtered_df[j].order_id :
                       j \in { n \in DOMAIN filtered_df :
                                 filtered_df[n].state = funnel_df[i].state } })
        /\ \A i, j \in DOMAIN funnel_df :
               i < j => StageRank(funnel_df[i].state) < StageRank(funnel_df[j].state)

\* a sale line arrives first, yet draft leads the funnel; two sale orders count 2
C7_Witness ==
    /\ ChartsDone
    /\ df[1].state = "sale"
    /\ funnel_df = << [state |-> "draft", count |-> 1], [state |-> "sale", count |-> 2] >>

\* C8: with no restriction on the field, the group totals of the category
\* breakdown, and those of the salesperson performance, sum to total_sales
C8_BreakdownsSumToTotal ==
    ChartsDone =>
        /\ category_selected = {} => SumCol(category_sales) = total_sales
        /\ salesperson_selected = {} => SumCol(salesperson_perf) = total_sales

\* what the rankings share whatever the order of equal sums: min(10, keys)
\* entries, one per key, each with the sum of its key's rows, largest first, and
\* no key left out that has a larger sum than one kept
RankingOf(top, col) ==
    LET keys == Unique(filtered_df, col)
    IN  /\ Len(top) = IF Cardinality(keys) < 10 THEN Cardinality(keys) ELSE 10
        /\ \A i \in DOMAIN top : top[i].key \in keys
        /\ \A i, j \in DOMAIN top : i # j => top[i].key # top[j].key
        /\ \A i \in DOMAIN top : top[i].price_total = KeyTotal(col, top[i].key)
        /\ \A i, j \in DOMAIN top : i < j => top[i].price_total >= top[j].price_total
        /\ \A k \in keys :
               (\A i \in DOMAIN top : top[i].key # k) =>
                   \A i \in DOMAIN top : KeyTotal(col, k) <= top[i].price_total

\* keys of equal sums stand in the order their first rows have in the fact set
TiesInEncounterOrder(top, col) ==
    \A i, j \in DOMAIN top :
        (i < j /\ top[i].price_total = top[j].price_total) =>
            FirstSeen(col, top[i].key) < FirstSeen(col, top[j].key)

\* C9 as amended: each top-10 ranking has min(10, distinct keys) entries, each
\* with the sum of its key's rows, in non-increasing order, and no omitted key has
\* a larger sum than an included one; the order of equal sums is left open
C9_TopTenRanking ==
    ChartsDone =>
        /\ RankingOf(top_customers, "customer")
        /\ RankingOf(top_products, "product")

\* C9 as stated: the same, and keys with equal sums appear in encounter order
C9_TopTenStableTies ==
    ChartsDone =>
        /\ RankingOf(top_customers, "customer")
        /\ RankingOf(top_products, "product")
        /\ TiesInEncounterOrder(top_customers, "customer")
        /\ TiesInEncounterOrder(top_products, "product")

\* eleven products ranked, ten kept, two of the kept ones with equal sums
C9_Witness ==
    /\ ChartsDone
    /\ Cardinality(Unique(filtered_df, "product")) = 11
    /\ Len(top_products) = 10
    /\ \E i \in 1..9 : top_products[i].price_total = top_products[i + 1].price_total

\* C10: with at least 2 distinct dates, every distinct order_date gets the index
\* order_date - min order_date, and the forecast has 30 points, the k-th
\* predicted at index last_index + k and dated last_date + k, so that each
\* point's date minus the minimum order_date is the index it was predicted at
C10_ForecastIndexIsDayOffset ==
    (ForecastDone /\ Cardinality(Unique(filtered_df, "order_date")) >= 2) =>
        LET dates == Unique(filtered_df, "order_date")
            first_date == SetMin(dates)
            last_date == SetMax(dates)
            last_index == last_date - first_date
        IN  /\ { daily_sales_forecast[i].order_date :
                   i \in DOMAIN daily_sales_forecast } = dates
            /\ Len(daily_sales_forecast) = Cardinality(dates)
            /\ \A i \in DOMAIN daily_sales_forecast :
                   daily_sales_forecast[i].day_number =
                       daily_sales_forecast[i].order_date - first_date
            /\ Len(future_days) = 30 /\ Len(forecast_df) = 30
            /\ \A k \in 1..30 :
                   /\ future_days[k] = last_index + k
                   /\ forecast_df[k].date = last_date + k
                   /\ forecast_df[k].date - first_date = future_days[k]

\* sales on day 0 and day 3 only: indices 0 and 3, the first forecast at index 4
C10_Witness ==
    /\ ForecastDone
    /\ Unique(filtered_df, "order_date") = {0, 3}
    /\ future_days[1] = 4
    /\ forecast_df[1].date = 4
    /\ forecast_df[30].date = 33

====
